---- MODULE Spec2Model ----
(***************************************************************************)
(* The gateway session of discord/src/gateway.rs: the session task         *)
(* (GatewayState::run), its heartbeat, the event channel to the Gateway    *)
(* handle and the handle's poll_next / close / drop.                       *)
(*                                                                         *)
(* Option<T> is a sequence of length at most one: <<>> is None and <<x>>   *)
(* is Some(x).  Time is counted in whole grace-period units ("seconds");   *)
(* deadlines are kept as the time that is left until they elapse.          *)
(***************************************************************************)
EXTENDS Integers, Sequences, FiniteSets, TLC

VARIABLES
    pc,                 \* where the session task is: "connect" before it is
                        \* spawned, "select", "send", "done", or "unspawned"
                        \* when connect() failed
    exit,               \* why the task left run(): "none" while it runs
    sequence,           \* GatewayState.sequence : Option<u32>
    ready,              \* GatewayState.ready : Option<Ready>
    heartbeat_timeout,  \* GatewayState.heartbeat_timeout : Option<time left>
    unacked,            \* time left of the grace period of the earliest
                        \* heartbeat that was sent and not acknowledged since
    interval,           \* GatewayState.interval : [timer, period]
    ws_stream,          \* GatewayState.ws_stream: "none", "open", "dropped"
    chan,               \* the event channel tx_event -> rx_event (FIFO)
    held,               \* the event a blocked sender.send() is holding
    forwarded,          \* number of events the task has put on the channel
    die,                \* number of messages in the shutdown channel
    handle,             \* the Gateway handle: "none", "open", "joined" (its
                        \* JoinHandle has yielded), "closing", "closed",
                        \* "dropped", "panicked"
    out,                \* transport operations performed by the last step
    last                \* the last step taken and what it was about

vars == <<pc, exit, sequence, ready, heartbeat_timeout, unacked, interval,
          ws_stream, chan, held, forwarded, die, handle, out, last>>

----------------------------------------------------------------------------
(* Bounds of the model *)

MaxLate == 0         \* how late a missed interval tick is tracked
MaxForwarded == 1    \* events forwarded in one run
MaxBacklog == 17     \* events forwarded in a run that fills the channel
MaxAttempts == 3     \* request_weak attempts followed in one Client::request

(* Program constants *)

Dispatch == 0
Heartbeat == 1
Identify == 2
Resume == 6
Reconnect == 7
InvalidSession == 9
Hello == 10
HeartbeatACK == 11

Grace == 2           \* Duration::from_secs(2)
EventCapacity == 16  \* mpsc::channel(16)
DieCapacity == 1     \* mpsc::channel(1)

UrlSuffix == "/?v=10&encoding=json"
DiscoveryUrl == "wss://gateway.discord.gg"
Token == "token"

None == <<>>
Some(x) == <<x>>
Opt(S) == {None} \cup {Some(x) : x \in S}

Max(a, b) == IF a >= b THEN a ELSE b

----------------------------------------------------------------------------
(* What the transport can yield *)

Opcodes == {Dispatch, Heartbeat, Identify, Resume, Reconnect, InvalidSession,
            Hello, HeartbeatACK}

NullPayload == [k |-> "null"]

ReadyPayloads ==
    { [k |-> "ready", resume_gateway_url |-> "wss://r", session_id |-> "abc"],
      [k |-> "ready", resume_gateway_url |-> "wss://resume.example/x", session_id |-> "def"] }

\* an interaction object: which of the fields AnyInteraction::deserialize
\* looks at are there; rest says whether the remaining fields are those of
\* an Interaction / MessageInteraction
Interaction(type, user, member, app, data, message, rest) ==
    [k |-> "interaction", type |-> type, user |-> user, member_user |-> member,
     application_id |-> app, data |-> data, message |-> message, rest |-> rest]

InteractionPayloads ==
    { Interaction(Some(2), TRUE, FALSE, TRUE, TRUE, FALSE, TRUE),
      Interaction(Some(3), FALSE, TRUE, TRUE, TRUE, TRUE, TRUE),
      Interaction(Some(5), TRUE, FALSE, TRUE, TRUE, FALSE, TRUE),
      Interaction(Some(5), TRUE, FALSE, TRUE, TRUE, TRUE, TRUE),
      Interaction(Some(1), TRUE, FALSE, TRUE, TRUE, FALSE, TRUE),
      Interaction(Some(3), FALSE, FALSE, TRUE, TRUE, TRUE, TRUE) }

HelloIntervals == {0, 1, 3}
HelloPayloads == {[k |-> "hello", heartbeat_interval |-> n] : n \in HelloIntervals}

Envelope(op, d, s, t) == [op |-> op, d |-> d, s |-> s, t |-> t]

\* the s of an envelope: absent, or one of two sequence numbers
SeqValues == Opt({1, 2})

DispatchEnvelopes ==
    {Envelope(Dispatch, d, s, Some("READY")) :
        d \in ReadyPayloads \cup {NullPayload}, s \in SeqValues}
    \cup {Envelope(Dispatch, d, s, Some("INTERACTION_CREATE")) :
        d \in InteractionPayloads \cup {NullPayload}, s \in SeqValues}
    \cup {Envelope(Dispatch, NullPayload, s, t) :
        s \in SeqValues, t \in {None, Some("GUILD_CREATE")}}

ControlEnvelopes ==
    {Envelope(op, NullPayload, None, None) :
        op \in {Heartbeat, Identify, Resume, Reconnect, InvalidSession, HeartbeatACK}}
    \cup {Envelope(Hello, d, None, None) : d \in HelloPayloads \cup {NullPayload}}

Envelopes == DispatchEnvelopes \cup ControlEnvelopes

\* ws_stream.next(): a text frame that parses as a GatewayMessage, a text
\* frame that does not, a close frame, another frame, an error, the end
Items ==
    {[kind |-> "text", msg |-> Some(m)] : m \in Envelopes}
    \cup {[kind |-> k, msg |-> None] : k \in {"text", "close", "other", "error", "end"}}

----------------------------------------------------------------------------
(* Decoding *)

\* AnyInteraction::deserialize without its arm for type 5
AnyInteractionNoModal(d) ==
    IF d.k # "interaction" THEN "panic"
    ELSE IF ~d.user /\ ~d.member_user THEN "panic"
    ELSE IF d.type = None THEN "panic"
    ELSE IF ~d.data THEN "panic"
    ELSE IF d.type = Some(2)
        THEN IF d.application_id /\ d.rest THEN "Command" ELSE "panic"
    ELSE IF d.type = Some(3)
        THEN IF d.rest THEN "Component" ELSE "panic"
    ELSE "panic"

\* AnyInteraction::deserialize: the variant built from the payload, or
\* "panic" where one of its unwrap()s or its panic!() is reached
AnyInteraction(d) ==
    IF d.k # "interaction" THEN "panic"
    ELSE IF ~d.user /\ ~d.member_user THEN "panic"
    ELSE IF d.type = None THEN "panic"
    ELSE IF ~d.data THEN "panic"
    ELSE IF d.type = Some(2)
        THEN IF d.application_id /\ d.rest THEN "Command" ELSE "panic"
    ELSE IF d.type = Some(3)
        THEN IF d.rest THEN "Component" ELSE "panic"
    ELSE IF d.type = Some(5)
        THEN IF ~d.rest THEN "panic"
             ELSE IF d.message THEN "MessageModal" ELSE "Modal"
    ELSE "panic"

\* GatewayEvent with READY decoded as an event for the consumer
GatewayEventReadyForwarded(message) ==
    IF message.t = Some("READY")
        THEN [res |-> "InteractionCreate", interaction |-> "Command"]
    ELSE IF message.t = Some("INTERACTION_CREATE")
        THEN IF AnyInteraction(message.d) = "panic"
             THEN [res |-> "panic"]
             ELSE [res |-> "InteractionCreate", interaction |-> AnyInteraction(message.d)]
    ELSE [res |-> "Err"]

\* GatewayEvent whose decoding error is unwrapped
GatewayEventUnwrapped(message) ==
    IF message.t = Some("READY")
        THEN IF message.d.k = "ready"
             THEN [res |-> "Ready",
                   ready |-> [resume_gateway_url |-> message.d.resume_gateway_url,
                              session_id |-> message.d.session_id]]
             ELSE [res |-> "panic"]
    ELSE IF message.t = Some("INTERACTION_CREATE")
        THEN IF AnyInteraction(message.d) = "panic"
             THEN [res |-> "panic"]
             ELSE [res |-> "InteractionCreate", interaction |-> AnyInteraction(message.d)]
    ELSE [res |-> "panic"]

\* serde_json::from_str::<GatewayEvent>: the enum is tagged by "t" with its
\* content in "d"; only READY and INTERACTION_CREATE are variants
GatewayEvent(message) ==
    IF message.t = Some("READY")
        THEN IF message.d.k = "ready"
             THEN [res |-> "Ready",
                   ready |-> [resume_gateway_url |-> message.d.resume_gateway_url,
                              session_id |-> message.d.session_id]]
             ELSE [res |-> "Err"]
    ELSE IF message.t = Some("INTERACTION_CREATE")
        THEN IF AnyInteraction(message.d) = "panic"
             THEN [res |-> "panic"]
             ELSE [res |-> "InteractionCreate", interaction |-> AnyInteraction(message.d)]
    ELSE [res |-> "Err"]

\* serde_json::from_value::<Hello>(message.d)
HelloInterval(d) == IF d.k = "hello" THEN Some(d.heartbeat_interval) ELSE None

----------------------------------------------------------------------------
(* Frames the task writes and the operations it performs on the transport *)

\* an encoder without the member "t"
EncodeWithoutEventName(m) ==
    IF m.s = None THEN [op |-> m.op, d |-> m.d]
    ELSE [op |-> m.op, d |-> m.d, s |-> m.s[1]]

\* serde_json::to_string(&GatewayMessage {..}): "s" and "t" are left out of
\* the text when they are None
Encode(m) ==
    IF m.s = None /\ m.t = None THEN [op |-> m.op, d |-> m.d]
    ELSE IF m.t = None THEN [op |-> m.op, d |-> m.d, s |-> m.s[1]]
    ELSE IF m.s = None THEN [op |-> m.op, d |-> m.d, t |-> m.t[1]]
    ELSE [op |-> m.op, d |-> m.d, s |-> m.s[1], t |-> m.t[1]]

\* serde_json::from_str::<GatewayMessage<Value>>: "op" must be a
\* GatewayOpcode and "d" must be there, "s" and "t" may be missing; None
\* when the text is not accepted
Decode(w) ==
    IF "op" \notin DOMAIN w \/ "d" \notin DOMAIN w THEN None
    ELSE IF w.op \notin Opcodes THEN None
    ELSE Some(Envelope(w.op, w.d,
                       IF "s" \in DOMAIN w THEN Some(w.s) ELSE None,
                       IF "t" \in DOMAIN w THEN Some(w.t) ELSE None))

\* a Heartbeat that never carries the sequence
HeartbeatMessageNoSequence(seq) ==
    Envelope(Heartbeat, [k |-> "seq", seq |-> None], None, None)

\* lines 46-52: d is self.sequence, null when it is None
HeartbeatMessage(seq) == Envelope(Heartbeat, [k |-> "seq", seq |-> seq], None, None)

\* lines 285-299
IdentifyMessage(token) ==
    Envelope(Identify, [k |-> "identify", token |-> token, intents |-> 0,
                        properties |-> [os |-> "linux", browser |-> "NAME",
                                        device |-> "NAME"]], None, None)

ResumeMessage(token, session_id, seq) ==
    Envelope(Resume, [k |-> "resume", token |-> token, session_id |-> session_id,
                      seq |-> seq], None, None)

\* the resume that goes back to the URL of GET /gateway
ResumeUrlDiscovery(r) == DiscoveryUrl \o UrlSuffix

\* line 125
ResumeUrl(r) == r.resume_gateway_url \o UrlSuffix

SendOp(m, ok) == [op |-> "send", text |-> Encode(m), ok |-> ok]
CloseOp(ok) == [op |-> "close", ok |-> ok]
ConnectOp(url, ok) == [op |-> "connect", url |-> url, ok |-> ok]

\* outcomes of the transport operations of one step
Outcomes == [close : BOOLEAN, connect : BOOLEAN, send : BOOLEAN]

----------------------------------------------------------------------------
(* Gateway::connect *)

\* an interval whose first tick comes a whole period after its start
StartIntervalFullPeriod(heartbeat_interval, offset) ==
    [timer |-> heartbeat_interval, period |-> heartbeat_interval]

\* interval_at(now + offset, heartbeat_interval), offset in 0..heartbeat_interval
StartInterval(heartbeat_interval, offset) ==
    [timer |-> offset, period |-> heartbeat_interval]

NoInterval == [timer |-> 0, period |-> 0]

Init ==
    /\ pc = "connect"
    /\ exit = "none"
    /\ sequence = None
    /\ ready = None
    /\ heartbeat_timeout = None
    /\ unacked = None
    /\ interval = NoInterval
    /\ ws_stream = "none"
    /\ chan = <<>>
    /\ held = None
    /\ forwarded = 0
    /\ die = 0
    /\ handle = "none"
    /\ out = <<>>
    /\ last = [act |-> "init"]

\* what GET /gateway comes to: Client::request (request.rs) returns the url,
\* returns an error, or goes round its loop on Network and RateLimited
Discoveries == {"ok", "error", "retry"}

\* lines 270-283: the first item of the new stream as a
\* GatewayMessage<Hello>, whose op is not looked at; None where one of the
\* expect()s panics
FirstHello(item) ==
    IF item.kind = "text" /\ item.msg # None
    THEN HelloInterval(item.msg[1].d)
    ELSE None

\* how far connect() gets and how it ends there: Err is returned to the
\* caller, panic unwinds into it
ConnectEnd(discovery, open, item, send) ==
    IF discovery = "retry" THEN [at |-> "discovery", res |-> "retry"]
    ELSE IF discovery = "error" THEN [at |-> "discovery", res |-> "Err"]
    ELSE IF ~open THEN [at |-> "open", res |-> "panic"]
    ELSE IF FirstHello(item) = None THEN [at |-> "hello", res |-> "panic"]
    ELSE IF ~send THEN [at |-> "identify", res |-> "Err"]
    ELSE IF FirstHello(item)[1] = 0 THEN [at |-> "interval", res |-> "panic"]
    ELSE [at |-> "spawn", res |-> "Ok"]

\* the transport operations of connect() up to the point e
ConnectOps(e, send) ==
    IF e.at = "discovery" THEN <<>>
    ELSE IF e.at = "open" THEN <<ConnectOp(DiscoveryUrl \o UrlSuffix, FALSE)>>
    ELSE IF e.at = "hello" THEN <<ConnectOp(DiscoveryUrl \o UrlSuffix, TRUE)>>
    ELSE <<ConnectOp(DiscoveryUrl \o UrlSuffix, TRUE),
           SendOp(IdentifyMessage(Token), send)>>

\* Gateway::connect, lines 265-330
Connect(discovery, open, item, send) ==
    /\ pc = "connect"
    /\ LET e == ConnectEnd(discovery, open, item, send)
       IN  /\ out' = ConnectOps(e, send)
           /\ last' = [act |-> "connect", at |-> e.at, res |-> e.res,
                       hello |-> IF e.at \in {"identify", "interval", "spawn"}
                                 THEN FirstHello(item) ELSE None]
           /\ CASE e.res = "Ok" ->
                    /\ \E offset \in 0..(FirstHello(item)[1] - 1) :
                            interval' = StartInterval(FirstHello(item)[1], offset)
                    /\ pc' = "select"
                    /\ ws_stream' = "open"
                    /\ handle' = "open"
                [] e.res = "retry" ->
                    UNCHANGED <<pc, interval, ws_stream, handle>>
                [] OTHER ->
                    /\ pc' = "unspawned"
                    /\ ws_stream' = IF e.at \in {"discovery", "open"}
                                    THEN "none" ELSE "dropped"
                    /\ UNCHANGED <<interval, handle>>
    /\ UNCHANGED <<exit, sequence, ready, heartbeat_timeout, unacked, chan,
                   held, forwarded, die>>

----------------------------------------------------------------------------
(* GatewayState::heartbeat and the pieces of GatewayState::run *)

\* the deadline of the first unacknowledged heartbeat kept by later ones
ArmedDeadlineKeepsFirst(deadline) ==
    IF deadline = None THEN Some(Grace) ELSE deadline

\* line 55: the deadline heartbeat() arms after a successful send, whatever
\* deadline was armed before
ArmedDeadline(deadline) == Some(Grace)

\* the sequence updated only in the arm that forwards
NextSequenceForwardedOnly(message) ==
    IF message.t = Some("INTERACTION_CREATE") THEN message.s ELSE sequence

\* line 90: self.sequence = message.s
NextSequence(message) == message.s

\* the deadline left armed by an acknowledgement
AckedDeadlineKept(deadline) == deadline

\* line 116: self.heartbeat_timeout = None
AckedDeadline(deadline) == None

\* line 120: resume information is there when both are Some
HasResumeInfo(r, seq) == r # None /\ seq # None

\* lines 125-145: what the resume does to the transport, up to the first failure
ResumeOps(r, seq, o) ==
    IF ~o.close THEN <<CloseOp(FALSE)>>
    ELSE IF ~o.connect THEN <<CloseOp(TRUE), ConnectOp(ResumeUrl(r), FALSE)>>
    ELSE <<CloseOp(TRUE), ConnectOp(ResumeUrl(r), TRUE),
           SendOp(ResumeMessage(Token, r.session_id, seq), o.send)>>

\* the resume that goes on although the Resume could not be sent
ResumeOutcomeSendUnchecked(o) ==
    IF ~o.close \/ ~o.connect THEN "panic" ELSE "ok"

\* lines 127, 128, 142: close().expect and connect_async().expect panic on
\* failure, a failed send of the Resume breaks
ResumeOutcome(o) ==
    IF ~o.close \/ ~o.connect THEN "panic"
    ELSE IF ~o.send THEN "send_failed"
    ELSE "ok"

\* an event receiver that outlives the handle
ReceiverAliveForever == TRUE

\* the event receiver rx_event lives in the handle until it is closed or dropped
ReceiverAlive == handle \in {"open", "joined", "closing"}

\* a shutdown sender that outlives the handle
DieSenderAliveForever == TRUE

\* the shutdown sender tx_die lives in the handle until it is closed or dropped
DieSenderAlive == handle \in {"open", "joined", "closing"}

\* the loop goes on with the state s = [sequence, ready, heartbeat_timeout,
\* unacked, interval] and an open ws_stream (the one it had, or the one the
\* resume has put in its place); what is done to the transport is in out
Store(s) ==
    /\ sequence' = s.sequence
    /\ ready' = s.ready
    /\ heartbeat_timeout' = s.heartbeat_timeout
    /\ unacked' = s.unacked
    /\ interval' = s.interval
    /\ ws_stream' = "open"

Continue(s) ==
    /\ pc' = "select"
    /\ exit' = "none"
    /\ held' = None
    /\ Store(s)

\* run() returns (break) or unwinds (panic): the spawned future ends and
\* drops the GatewayState with its transport, sender and shutdown receiver
Break(cause) ==
    /\ pc' = "done"
    /\ exit' = cause
    /\ sequence' = None
    /\ ready' = None
    /\ heartbeat_timeout' = None
    /\ unacked' = None
    /\ interval' = NoInterval
    /\ ws_stream' = "dropped"
    /\ held' = None

State ==
    [sequence |-> sequence, ready |-> ready, heartbeat_timeout |-> heartbeat_timeout,
     unacked |-> unacked, interval |-> interval]

\* GatewayState::heartbeat in the state s: send Heartbeat{d: sequence}; when
\* the send fails the `?` returns before the deadline is armed and the
\* caller breaks
heartbeat(s, ok) ==
    /\ out' = <<SendOp(HeartbeatMessage(s.sequence), ok)>>
    /\ IF ok
       THEN Continue([s EXCEPT !.heartbeat_timeout = ArmedDeadline(@),
                               !.unacked = IF @ = None THEN Some(Grace) ELSE @])
       ELSE Break("send_failed")

\* a send that makes room on the full channel by dropping its oldest event
ForwardWithinDropOldest(s, max) ==
    /\ forwarded < max
    /\ IF ~ReceiverAlive
       THEN Break("receiver_gone") /\ UNCHANGED <<chan, forwarded>>
       ELSE /\ chan' = IF Len(chan) < EventCapacity
                       THEN Append(chan, forwarded + 1)
                       ELSE Append(Tail(chan), forwarded + 1)
            /\ forwarded' = forwarded + 1
            /\ Continue(s)

\* sender.send(event).await in the state s, up to its first suspension, in
\* a run of at most max events
ForwardWithin(s, max) ==
    /\ forwarded < max
    /\ IF ~ReceiverAlive
       THEN Break("receiver_gone") /\ UNCHANGED <<chan, forwarded>>
       ELSE IF Len(chan) < EventCapacity
       THEN /\ chan' = Append(chan, forwarded + 1)
            /\ forwarded' = forwarded + 1
            /\ Continue(s)
       ELSE /\ pc' = "send"
            /\ exit' = "none"
            /\ held' = Some(forwarded + 1)
            /\ Store(s)
            /\ UNCHANGED <<chan, forwarded>>

Forward(s) == ForwardWithin(s, MaxForwarded)

\* line 65: the shutdown channel yields a message, or None once tx_die is gone
TaskShutdown ==
    /\ pc = "select"
    /\ die > 0 \/ ~DieSenderAlive
    /\ die' = IF die > 0 THEN die - 1 ELSE die
    /\ Break("shutdown")
    /\ out' = <<>>
    /\ last' = [act |-> "shutdown"]
    /\ UNCHANGED <<chan, forwarded, handle>>

\* the elapsed deadline answered with a resume
TaskTimeoutResumes ==
    /\ pc = "select"
    /\ heartbeat_timeout = Some(0)
    /\ IF HasResumeInfo(ready, sequence)
       THEN /\ out' = ResumeOps(ready[1], sequence[1],
                                [close |-> TRUE, connect |-> TRUE, send |-> TRUE])
            /\ Continue([State EXCEPT !.heartbeat_timeout = None, !.unacked = None])
       ELSE /\ out' = <<>>
            /\ Break("heartbeat_timeout")
    /\ last' = [act |-> "timeout"]
    /\ UNCHANGED <<chan, forwarded, die, handle>>

\* line 69: the armed deadline has elapsed
TaskTimeout ==
    /\ pc = "select"
    /\ heartbeat_timeout = Some(0)
    /\ Break("heartbeat_timeout")
    /\ out' = <<>>
    /\ last' = [act |-> "timeout"]
    /\ UNCHANGED <<chan, forwarded, die, handle>>

\* line 73: the interval ticks; the next tick is one period after this one
\* was due (tokio's default MissedTickBehavior::Burst)
TaskTick(ok) ==
    /\ pc = "select"
    /\ interval.timer <= 0
    /\ heartbeat([State EXCEPT !.interval.timer = @ + interval.period], ok)
    /\ last' = [act |-> "tick"]
    /\ UNCHANGED <<chan, forwarded, die, handle>>

\* a step of the ws_stream.next() branch: last keeps the item and what
\* became of it
RecvFrame(item, res) ==
    /\ pc = "select"
    /\ last' = [act |-> "recv", item |-> item, res |-> res]
    /\ UNCHANGED <<die, handle>>

\* lines 80-83 and 160-163: no item, a read error or a close frame
RecvEnd(item) ==
    /\ RecvFrame(item, "break")
    /\ item.kind \in {"end", "error", "close"}
    /\ Break(IF item.kind = "close" THEN "close_frame" ELSE "end_of_stream")
    /\ out' = <<>>
    /\ UNCHANGED <<chan, forwarded>>

\* line 164: binary, ping and pong frames
RecvOther(item) ==
    /\ RecvFrame(item, "ignored")
    /\ item.kind = "other"
    /\ Continue(State)
    /\ out' = <<>>
    /\ UNCHANGED <<chan, forwarded>>

\* a text that is no GatewayMessage passed over
RecvUndecodableSkipped(item) ==
    /\ RecvFrame(item, "ignored")
    /\ item.kind = "text" /\ item.msg = None
    /\ Continue(State)
    /\ out' = <<>>
    /\ UNCHANGED <<chan, forwarded>>

\* line 86: serde_json::from_str(&s).unwrap() on a text that is no
\* GatewayMessage (no JSON, a member missing, an op that is no GatewayOpcode)
RecvUndecodable(item) ==
    /\ RecvFrame(item, "panic")
    /\ item.kind = "text" /\ item.msg = None
    /\ Break("panic")
    /\ out' = <<>>
    /\ UNCHANGED <<chan, forwarded>>

\* lines 88-104, in a run of at most max events
RecvDispatchWithin(item, max) ==
    /\ item.kind = "text" /\ item.msg # None
    /\ RecvFrame(item, GatewayEvent(item.msg[1]).res)
    /\ LET message == item.msg[1]
           event == GatewayEvent(message)
           s == [State EXCEPT !.sequence = NextSequence(message)]
       IN  /\ message.op = Dispatch
           /\ out' = <<>>
           /\ CASE event.res = "Ready" ->
                    /\ Continue([s EXCEPT !.ready = Some(event.ready)])
                    /\ UNCHANGED <<chan, forwarded>>
                [] event.res = "InteractionCreate" ->
                    ForwardWithin(s, max)
                [] event.res = "Err" ->
                    /\ Continue(s)
                    /\ UNCHANGED <<chan, forwarded>>
                [] event.res = "panic" ->
                    /\ Break("panic")
                    /\ UNCHANGED <<chan, forwarded>>

RecvDispatch(item) == RecvDispatchWithin(item, MaxForwarded)

\* lines 105-110
RecvHeartbeat(item, ok) ==
    /\ RecvFrame(item, "heartbeat")
    /\ item.kind = "text" /\ item.msg # None
    /\ item.msg[1].op = Heartbeat
    /\ heartbeat(State, ok)
    /\ UNCHANGED <<chan, forwarded>>

\* InvalidSession taken for an opcode that is not for the client
RecvInvalidSessionIgnored(item) ==
    /\ RecvFrame(item, "ignored")
    /\ item.kind = "text" /\ item.msg # None
    /\ item.msg[1].op = InvalidSession
    /\ Continue(State)
    /\ out' = <<>>
    /\ UNCHANGED <<chan, forwarded>>

\* lines 111-114
RecvInvalidSession(item) ==
    /\ RecvFrame(item, "break")
    /\ item.kind = "text" /\ item.msg # None
    /\ item.msg[1].op = InvalidSession
    /\ Break("invalid_session")
    /\ out' = <<>>
    /\ UNCHANGED <<chan, forwarded>>

\* lines 115-117
RecvHeartbeatACK(item) ==
    /\ RecvFrame(item, IF heartbeat_timeout = None THEN "nothing armed" ELSE "cleared")
    /\ item.kind = "text" /\ item.msg # None
    /\ item.msg[1].op = HeartbeatACK
    /\ Continue([State EXCEPT !.heartbeat_timeout = AckedDeadline(@),
                              !.unacked = None])
    /\ out' = <<>>
    /\ UNCHANGED <<chan, forwarded>>

\* lines 118-146
RecvReconnect(item, o) ==
    /\ RecvFrame(item, "reconnect")
    /\ item.kind = "text" /\ item.msg # None
    /\ item.msg[1].op = Reconnect
    /\ IF ~HasResumeInfo(ready, sequence)
       THEN /\ Break("no_resume")
            /\ out' = <<>>
       ELSE /\ out' = ResumeOps(ready[1], sequence[1], o)
            /\ IF ResumeOutcome(o) = "ok" THEN Continue(State)
               ELSE Break(ResumeOutcome(o))
    /\ UNCHANGED <<chan, forwarded>>

\* lines 147-156: gen_range(0..0) panics on an empty range
RecvHello(item) ==
    /\ RecvFrame(item, "hello")
    /\ item.kind = "text" /\ item.msg # None
    /\ item.msg[1].op = Hello
    /\ LET hello == HelloInterval(item.msg[1].d)
       IN  IF hello = None
           THEN Continue(State)
           ELSE IF hello[1] = 0
           THEN Break("panic")
           ELSE \E offset \in 0..(hello[1] - 1) :
                    Continue([State EXCEPT !.interval = StartInterval(hello[1], offset)])
    /\ out' = <<>>
    /\ UNCHANGED <<chan, forwarded>>

\* line 157: Identify and Resume are not for the client
RecvIgnored(item) ==
    /\ RecvFrame(item, "ignored")
    /\ item.kind = "text" /\ item.msg # None
    /\ item.msg[1].op \in {Identify, Resume}
    /\ Continue(State)
    /\ out' = <<>>
    /\ UNCHANGED <<chan, forwarded>>

\* line 79: the ws_stream.next() branch of the select
TaskRecv(item) ==
    \/ RecvEnd(item)
    \/ RecvOther(item)
    \/ RecvUndecodable(item)
    \/ RecvDispatch(item)
    \/ \E ok \in BOOLEAN : RecvHeartbeat(item, ok)
    \/ RecvInvalidSession(item)
    \/ RecvHeartbeatACK(item)
    \/ \E o \in Outcomes : RecvReconnect(item, o)
    \/ RecvHello(item)
    \/ RecvIgnored(item)

\* line 97, resumed: the blocked sender.send() gets a permit or finds the
\* receiver gone
TaskSend ==
    /\ pc = "send"
    /\ IF ~ReceiverAlive
       THEN /\ Break("receiver_gone")
            /\ UNCHANGED <<chan, forwarded>>
       ELSE /\ Len(chan) < EventCapacity
            /\ chan' = Append(chan, held[1])
            /\ forwarded' = forwarded + 1
            /\ Continue(State)
    /\ out' = <<>>
    /\ last' = [act |-> "send"]
    /\ UNCHANGED <<die, handle>>

\* one unit of time passes for the running task's timers
Advance ==
    /\ pc \in {"select", "send"}
    /\ heartbeat_timeout' = IF heartbeat_timeout = None THEN None
                            ELSE Some(Max(0, heartbeat_timeout[1] - 1))
    /\ unacked' = IF unacked = None THEN None ELSE Some(Max(0, unacked[1] - 1))
    /\ interval' = [interval EXCEPT !.timer = Max(0 - MaxLate, @ - 1)]
    /\ out' = <<>>
    /\ last' = [act |-> "advance"]
    /\ UNCHANGED <<pc, exit, sequence, ready, ws_stream, chan, held, forwarded,
                   die, handle>>

----------------------------------------------------------------------------
(* The Gateway handle *)

\* a receiver that yields the newest event first
NextEventNewest(c) ==
    [event |-> c[Len(c)], rest |-> SubSeq(c, 1, Len(c) - 1)]

\* line 256: self.stream.next() takes the oldest event off the channel
NextEvent(c) == [event |-> Head(c), rest |-> Tail(c)]

\* polling the JoinHandle whose output an earlier poll has taken: tokio
\* panics with "JoinHandle polled after completion"
JoinPoll(h) == IF h = "joined" THEN "panic" ELSE "ready"

\* Gateway::poll_next, lines 251-261: the join handle first, then the event
\* receiver
PollNext ==
    /\ handle \in {"open", "joined"}
    /\ IF pc = "done"
       THEN IF JoinPoll(handle) = "panic"
            THEN /\ last' = [act |-> "poll_next", res |-> "panic"]
                 /\ handle' = "panicked"
                 /\ UNCHANGED chan
            ELSE /\ last' = [act |-> "poll_next", res |-> "end"]
                 /\ handle' = "joined"
                 /\ UNCHANGED chan
       ELSE IF chan # <<>>
       THEN /\ last' = [act |-> "poll_next", res |-> "event",
                        id |-> NextEvent(chan).event]
            /\ chan' = NextEvent(chan).rest
            /\ UNCHANGED handle
       ELSE /\ last' = [act |-> "poll_next", res |-> "pending"]
            /\ UNCHANGED <<chan, handle>>
    /\ out' = <<>>
    /\ UNCHANGED <<pc, exit, sequence, ready, heartbeat_timeout, unacked, interval,
                   ws_stream, held, forwarded, die>>

\* Gateway::close up to task.await: nothing to do when the task has finished
Close ==
    /\ handle \in {"open", "joined"}
    /\ IF pc = "done"
       THEN handle' = "closed" /\ UNCHANGED die
       ELSE handle' = "closing" /\ die' = die + 1
    /\ out' = <<>>
    /\ last' = [act |-> "close"]
    /\ UNCHANGED <<pc, exit, sequence, ready, heartbeat_timeout, unacked, interval,
                   ws_stream, chan, held, forwarded>>

\* close() that returns once the signal is sent
CloseReturnEarly ==
    /\ handle = "closing"
    /\ handle' = "closed"
    /\ out' = <<>>
    /\ last' = [act |-> "close_return"]
    /\ UNCHANGED <<pc, exit, sequence, ready, heartbeat_timeout, unacked, interval,
                   ws_stream, chan, held, forwarded, die>>

\* Gateway::close: task.await resolves
CloseReturn ==
    /\ handle = "closing"
    /\ pc = "done"
    /\ handle' = "closed"
    /\ out' = <<>>
    /\ last' = [act |-> "close_return"]
    /\ UNCHANGED <<pc, exit, sequence, ready, heartbeat_timeout, unacked, interval,
                   ws_stream, chan, held, forwarded, die>>

\* the handle goes out of scope without close()
DropHandle ==
    /\ handle \in {"open", "joined"}
    /\ handle' = "dropped"
    /\ out' = <<>>
    /\ last' = [act |-> "drop"]
    /\ UNCHANGED <<pc, exit, sequence, ready, heartbeat_timeout, unacked, interval,
                   ws_stream, chan, held, forwarded, die>>

----------------------------------------------------------------------------

\* With at most MaxForwarded < EventCapacity events forwarded the channel is
\* never full, sender.send() never suspends and TaskSend has nothing to resume
Next ==
    \/ \E discovery \in Discoveries, open \in BOOLEAN, item \in Items,
          send \in BOOLEAN : Connect(discovery, open, item, send)
    \/ TaskShutdown
    \/ TaskTimeout
    \/ \E ok \in BOOLEAN : TaskTick(ok)
    \/ \E item \in Items : TaskRecv(item)
    \/ Advance
    \/ PollNext
    \/ Close
    \/ CloseReturn
    \/ DropHandle

Spec == Init /\ [][Next]_vars

\* select! polls its ready branches in random order, so a branch that stays
\* ready is taken in the end; time does not stop
Fairness ==
    /\ WF_vars(TaskShutdown)
    /\ WF_vars(TaskTimeout)
    /\ WF_vars(\E ok \in BOOLEAN : TaskTick(ok))
    /\ WF_vars(Advance)

FairSpec == Spec /\ Fairness

\* The run that fills the event channel: the transport yields one
\* INTERACTION_CREATE after the other, the consumer drains or does not
BackpressureItems ==
    {[kind |-> "text",
      msg |-> Some(Envelope(Dispatch,
                            Interaction(Some(2), TRUE, FALSE, TRUE, TRUE, FALSE, TRUE),
                            Some(1), Some("INTERACTION_CREATE")))]}

HelloItems ==
    {[kind |-> "text", msg |-> Some(Envelope(Hello, d, None, None))] :
        d \in HelloPayloads}

NextBackpressure ==
    \/ \E item \in HelloItems : \E send \in BOOLEAN : Connect("ok", TRUE, item, send)
    \/ TaskShutdown
    \/ TaskTimeout
    \/ \E ok \in BOOLEAN : TaskTick(ok)
    \/ \E item \in BackpressureItems : RecvDispatchWithin(item, MaxBacklog)
    \/ TaskSend
    \/ Advance
    \/ PollNext
    \/ Close
    \/ CloseReturn
    \/ DropHandle

BackpressureSpec == Init /\ [][NextBackpressure]_vars

\* a suspended send goes on once the channel has room or the receiver is
\* gone, and task.await resolves once the task has ended
FairnessBackpressure ==
    /\ Fairness
    /\ WF_vars(TaskSend)
    /\ WF_vars(CloseReturn)

BackpressureFairSpec == BackpressureSpec /\ FairnessBackpressure

\* The envelope codec on its own: an envelope is encoded, the text decoded
CodecEnvelopes ==
    {Envelope(op, d, s, t) :
        op \in Opcodes,
        d \in {NullPayload} \cup ReadyPayloads,
        s \in SeqValues,
        t \in {None, Some("READY"), Some("INTERACTION_CREATE")}}

CodecInit ==
    /\ pc = "codec"
    /\ exit = "none"
    /\ sequence = None
    /\ ready = None
    /\ heartbeat_timeout = None
    /\ unacked = None
    /\ interval = NoInterval
    /\ ws_stream = "none"
    /\ chan = <<>>
    /\ held = None
    /\ forwarded = 0
    /\ die = 0
    /\ handle = "none"
    /\ out = <<>>
    /\ \E m \in CodecEnvelopes : last = [act |-> "envelope", msg |-> m]

\* serde_json::to_string of the envelope
EncodeStep ==
    /\ pc = "codec"
    /\ last.act = "envelope"
    /\ last' = [act |-> "encode", msg |-> last.msg, text |-> Encode(last.msg)]
    /\ UNCHANGED <<pc, exit, sequence, ready, heartbeat_timeout, unacked, interval,
                   ws_stream, chan, held, forwarded, die, handle, out>>

\* serde_json::from_str of the text
DecodeStep ==
    /\ pc = "codec"
    /\ last.act = "encode"
    /\ last' = [act |-> "decode", msg |-> last.msg, text |-> last.text,
                decoded |-> Decode(last.text)]
    /\ UNCHANGED <<pc, exit, sequence, ready, heartbeat_timeout, unacked, interval,
                   ws_stream, chan, held, forwarded, die, handle, out>>

CodecNext == EncodeStep \/ DecodeStep

CodecSpec == CodecInit /\ [][CodecNext]_vars

----------------------------------------------------------------------------
(* Client::request, the retrying call connect() uses for discovery *)

\* the results of one request_weak: a value or one variant of RequestError
RequestOutcomes ==
    {"Ok", "Authorization", "Network", "RateLimited", "ClientError(400)",
     "ClientError(404)", "ServerError", "InvalidSession"}

\* the arguments of a call: method, uri and body
RequestArguments ==
    [method : {"GET", "POST", "PATCH", "DELETE"},
     uri : {"/gateway", "/users/@me"},
     body : {None, Some("{}")}]

\* a loop that goes round on a rate limit only
RetriedRateLimitedOnly(r) == r = "RateLimited"

\* the two arms that go round the loop
Retried(r) == r \in {"RateLimited", "Network"}

\* r => break r
RequestResult(r) == r

\* a call of Client::request that has made no attempt yet
RequestInit ==
    /\ pc = "request"
    /\ exit = "none"
    /\ sequence = None
    /\ ready = None
    /\ heartbeat_timeout = None
    /\ unacked = None
    /\ interval = NoInterval
    /\ ws_stream = "none"
    /\ chan = <<>>
    /\ held = None
    /\ forwarded = 0
    /\ die = 0
    /\ handle = "none"
    /\ out = <<>>
    /\ \E a \in RequestArguments :
            last = [act |-> "request", args |-> a, attempts |-> 0]

\* one round of the loop: request_weak with the arguments of the call, then
\* the match on its result
RequestWeak(r) ==
    /\ pc = "request"
    /\ last.attempts < MaxAttempts
    /\ IF Retried(r)
       THEN /\ pc' = "request"
            /\ last' = [act |-> "request_weak", args |-> last.args,
                        attempts |-> last.attempts + 1, res |-> r]
       ELSE /\ pc' = "returned"
            /\ last' = [act |-> "request_weak", args |-> last.args,
                        attempts |-> last.attempts + 1, res |-> r,
                        returned |-> RequestResult(r)]
    /\ UNCHANGED <<exit, sequence, ready, heartbeat_timeout, unacked, interval,
                   ws_stream, chan, held, forwarded, die, handle, out>>

RequestNext == \E r \in RequestOutcomes : RequestWeak(r)

RequestSpec == RequestInit /\ [][RequestNext]_vars

----------------------------------------------------------------------------
(* Properties *)

KnownEvents == {Some("READY"), Some("INTERACTION_CREATE")}

\* the step l processed a Dispatch envelope
DispatchProcessed(l) ==
    /\ l.act = "recv"
    /\ l.item.kind = "text"
    /\ l.item.msg # None
    /\ l.item.msg[1].op = Dispatch

\* the envelope of the step l
Msg(l) == l.item.msg[1]

\* C1: while the session task runs, after each Dispatch envelope it has
\* processed the stored sequence is the s of that envelope, whether the
\* envelope was the intercepted READY, a forwarded event or an unknown event
C1_SequenceIsLastDispatch ==
    (DispatchProcessed(last) /\ pc # "done") => sequence = Msg(last).s

\* a READY with s = 2 was intercepted after an event had been forwarded
C1_Witness ==
    /\ DispatchProcessed(last)
    /\ Msg(last).t = Some("READY")
    /\ Msg(last).s = Some(2)
    /\ sequence = Some(2)
    /\ forwarded = 1
    /\ pc = "select"

\* C2: a Dispatch envelope named READY puts nothing on the event channel,
\* leaves the task running, sets the sequence to its s and, when its payload
\* carries resume_gateway_url and session_id, stores those as the credentials
C2_ReadyIntercepted ==
    [][(DispatchProcessed(last') /\ Msg(last').t = Some("READY")) =>
            /\ chan' = chan
            /\ forwarded' = forwarded
            /\ held' = None
            /\ pc' = "select"
            /\ sequence' = Msg(last').s
            /\ (Msg(last').d.k = "ready") =>
                    ready' = Some([resume_gateway_url |-> Msg(last').d.resume_gateway_url,
                                   session_id |-> Msg(last').d.session_id])]_vars

\* READY with s = 1 and {resume_gateway_url: "wss://r", session_id: "abc"}
\* has been processed and the channel is empty
C2_Witness ==
    /\ DispatchProcessed(last)
    /\ Msg(last).t = Some("READY")
    /\ Msg(last).s = Some(1)
    /\ sequence = Some(1)
    /\ ready = Some([resume_gateway_url |-> "wss://r", session_id |-> "abc"])
    /\ chan = <<>>
    /\ forwarded = 0

\* an interaction object that AnyInteraction::deserialize accepts
WellFormedInteraction(d) ==
    /\ d.k = "interaction"
    /\ d.user \/ d.member_user
    /\ d.type \in {Some(2), Some(3), Some(5)}
    /\ d.data
    /\ d.rest
    /\ (d.type = Some(2)) => d.application_id

C4_UnknownEventIgnored ==
    [][(DispatchProcessed(last') /\ Msg(last').t \notin KnownEvents) =>
            /\ pc' = "select"
            /\ exit' = "none"
            /\ out' = <<>>
            /\ sequence' = Msg(last').s
            /\ UNCHANGED <<ready, heartbeat_timeout, unacked, interval, chan,
                           held, forwarded, die, handle>>]_vars

\* GUILD_CREATE with s = 2 was processed after READY with another s
C4_Witness ==
    /\ DispatchProcessed(last)
    /\ Msg(last).t = Some("GUILD_CREATE")
    /\ Msg(last).s = Some(2)
    /\ sequence = Some(2)
    /\ ready # None
    /\ pc = "select"

\* the step l processed an envelope with opcode op
Processed(l, op) ==
    /\ l.act = "recv"
    /\ l.item.kind = "text"
    /\ l.item.msg # None
    /\ l.item.msg[1].op = op

\* a Heartbeat frame is among the transport operations o and was written
HeartbeatSent(o) ==
    \E i \in 1..Len(o) : o[i].op = "send" /\ o[i].ok /\ o[i].text.op = Heartbeat

\* C5 as claimed: no Heartbeat frame is sent while a heartbeat sent before is
\* still waiting for its HeartbeatAck
C5_NoHeartbeatWhileUnacked ==
    [][HeartbeatSent(out') => unacked = None]_vars

\* C5 amended: at most one ack deadline is armed at any time; a Heartbeat
\* frame sent while an earlier heartbeat is still unacknowledged adds no
\* second deadline, it re-arms the one deadline to 2 seconds after this send
C5_SingleDeadlineRearmed ==
    /\ [](Len(heartbeat_timeout) <= 1)
    /\ [][HeartbeatSent(out') =>
            /\ heartbeat_timeout' = Some(Grace)
            /\ unacked' # None
            /\ pc' = "select"]_vars

\* a Heartbeat was sent when the grace period of an earlier, still
\* unacknowledged heartbeat had partly run down
C5_Witness ==
    /\ HeartbeatSent(out)
    /\ heartbeat_timeout = Some(Grace)
    /\ unacked # None
    /\ unacked[1] < Grace

\* C6: at most one ack deadline is armed; a HeartbeatAck envelope clears it,
\* and changes nothing else: the task goes on, no frame is sent, sequence,
\* credentials, interval and channel stay (so with no deadline armed the
\* state is left as it was)
C6_AckClearsDeadline ==
    /\ [](Len(heartbeat_timeout) <= 1)
    /\ [][Processed(last', HeartbeatACK) =>
            /\ heartbeat_timeout' = None
            /\ pc' = "select"
            /\ exit' = "none"
            /\ out' = <<>>
            /\ UNCHANGED <<sequence, ready, interval, chan, held, forwarded,
                           die, handle>>]_vars

\* an Ack has cleared an armed deadline
C6_Witness ==
    /\ Processed(last, HeartbeatACK)
    /\ last.res = "cleared"
    /\ heartbeat_timeout = None
    /\ pc = "select"

\* C7: once the grace period of a sent heartbeat has run out without a
\* HeartbeatAck having been processed, the session task terminates
C7_UnackedHeartbeatTerminates ==
    (unacked = Some(0)) ~> (pc = "done")

\* the operations of a resume for the credentials r and the sequence seq
\* when each of them succeeds
ExpectedResume(r, seq) ==
    << [op |-> "close", ok |-> TRUE],
       [op |-> "connect", url |-> r.resume_gateway_url \o "/?v=10&encoding=json",
        ok |-> TRUE],
       [op |-> "send", ok |-> TRUE,
        text |-> [op |-> 6, d |-> [k |-> "resume", token |-> Token,
                                   session_id |-> r.session_id, seq |-> seq]]] >>

AllOk(o) == \A i \in 1..Len(o) : o[i].ok

\* C8: on a Reconnect envelope with credentials and a sequence stored, the
\* task first closes the transport, connects only to the captured
\* resume_gateway_url with "/?v=10&encoding=json" appended, and sends no
\* Identify; when close, connect and send succeed it has sent exactly one
\* Resume with the token, the captured session_id and the stored sequence,
\* and goes on running
C8_ReconnectResumes ==
    [][(Processed(last', Reconnect) /\ ready # None /\ sequence # None) =>
            LET expected == ExpectedResume(ready[1], sequence[1])
            IN  /\ Len(out') \in 1..3
                /\ \A i \in 1..Len(out') :
                        /\ out'[i].op = expected[i].op
                        /\ out'[i].op = "connect" =>
                            /\ out'[i].url = expected[i].url
                            /\ out'[i].url # DiscoveryUrl \o UrlSuffix
                        /\ out'[i].op = "send" => out'[i].text = expected[i].text
                /\ AllOk(out') => (out' = expected /\ pc' = "select")]_vars

\* after READY {"wss://resume.example/x", "def"} and a Dispatch with s = 2 a
\* Reconnect has been answered with close, connect and Resume
C8_Witness ==
    /\ Processed(last, Reconnect)
    /\ pc = "select"
    /\ ready = Some([resume_gateway_url |-> "wss://resume.example/x",
                     session_id |-> "def"])
    /\ sequence = Some(2)
    /\ out = ExpectedResume(ready[1], 2)

\* C9: a Reconnect envelope ends the task when no credentials or no sequence
\* are stored, then without touching the transport, and when the close, the
\* connect or the send of the Resume fails
C9_ReconnectFailureTerminates ==
    [][Processed(last', Reconnect) =>
            /\ (ready = None \/ sequence = None) => (pc' = "done" /\ out' = <<>>)
            /\ ~AllOk(out') => pc' = "done"]_vars

\* the task has ended on a Resume that could not be sent
C9_Witness ==
    /\ Processed(last, Reconnect)
    /\ pc = "done"
    /\ Len(out) = 3
    /\ out[3].op = "send"
    /\ out[3].text.op = Resume
    /\ ~out[3].ok

\* the task has ended on a Reconnect that came before any READY
C9_WitnessNoCredentials ==
    /\ Processed(last, Reconnect)
    /\ exit = "no_resume"
    /\ out = <<>>

\* C10: an InvalidSession envelope ends the task without a transport
\* operation, and from then on the task stays ended and performs none
C10_InvalidSessionTerminates ==
    [][/\ Processed(last', InvalidSession) =>
            (pc' = "done" /\ exit' = "invalid_session" /\ out' = <<>>)
       /\ (exit = "invalid_session") =>
            (pc' = "done" /\ exit' = "invalid_session" /\ out' = <<>>)]_vars

\* InvalidSession ended a task that had forwarded an event, and the handle
\* has been polled since
C10_Witness ==
    /\ exit = "invalid_session"
    /\ pc = "done"
    /\ forwarded = 1
    /\ last.act = "poll_next"

\* the step l read an item the task cannot go on from: the end of the
\* stream, a read error, a close frame or a text that is no envelope
Unreadable(l) ==
    /\ l.act = "recv"
    /\ \/ l.item.kind \in {"end", "error", "close"}
       \/ l.item.kind = "text" /\ l.item.msg = None

\* C11: a read that yields the end of the stream, an error, a close frame
\* or a text frame that is no envelope ends the session task, whatever its
\* state: it is never passed over with the task still running, nothing is
\* sent or forwarded, and the transport is dropped
C11_UnreadableTerminates ==
    [][Unreadable(last') =>
            /\ pc' = "done"
            /\ exit' \in {"end_of_stream", "close_frame", "panic"}
            /\ ws_stream' = "dropped"
            /\ out' = <<>>
            /\ chan' = chan]_vars

\* a text frame that is no envelope has ended, by the panic of unwrap(), a
\* task that had forwarded an event
C11_Witness ==
    /\ Unreadable(last)
    /\ last.item.kind = "text"
    /\ pc = "done"
    /\ exit = "panic"
    /\ forwarded = 1

TaskActs == {"shutdown", "timeout", "tick", "recv"}

\* C12: in a loop iteration that starts with the shutdown signal in the
\* channel the task takes the shutdown branch, and no other
C12_ShutdownFirst ==
    [][(die > 0 /\ pc = "select" /\ last'.act \in TaskActs) =>
            last'.act = "shutdown"]_vars

\* C13: close() has returned only when the session task has ended and its
\* transport has been dropped with it
C13_CloseReturnsAfterExit ==
    (handle = "closed") => (pc = "done" /\ ws_stream = "dropped")

\* close() has returned after it signalled a running task that had
\* forwarded an event, and the task took the shutdown branch
C13_Witness ==
    /\ handle = "closed"
    /\ last.act = "close_return"
    /\ exit = "shutdown"
    /\ forwarded = 1
    /\ die = 0

\* the close handshakes among the transport operations o
Closes(o) == {i \in 1..Len(o) : o[i].op = "close"}

\* C14: the task that takes the shutdown branch closes the transport with
\* exactly one close handshake
C14_CloseHandshakeOnce ==
    [][(last'.act = "shutdown") => Cardinality(Closes(out')) = 1]_vars

\* C15: while the forward of an event is suspended on the full event
\* channel, a heartbeat tick that is due can be taken
C15_TickServicedWhileBlocked ==
    (pc = "send" /\ interval.timer <= 0) => ENABLED TaskTick(TRUE)

GoneHandles == {"closed", "dropped", "panicked"}

\* C16: with the event receiver gone, the attempt to forward an event, new
\* or suspended on the full channel, ends the task and puts nothing on the
\* channel
C16_ReceiverGoneTerminates ==
    [][(/\ handle \in GoneHandles
        /\ \/ DispatchProcessed(last') /\ last'.res = "InteractionCreate"
           \/ last'.act = "send") =>
            /\ pc' = "done"
            /\ exit' = "receiver_gone"
            /\ chan' = chan
            /\ forwarded' = forwarded]_vars

\* the task has ended on the forward of an event after the handle was
\* dropped with events left on the channel
C16_Witness ==
    /\ DispatchProcessed(last)
    /\ last.res = "InteractionCreate"
    /\ exit = "receiver_gone"
    /\ handle = "dropped"
    /\ forwarded = Len(chan)
    /\ forwarded > 0

\* C17: once the session task has ended, every poll of the handle for the
\* next event answers with the end of the sequence
C17_EndOfSequenceAfterExit ==
    [][(last'.act = "poll_next" /\ pc = "done") => last'.res = "end"]_vars

\* the Identify frame as it is written
IdentifyText ==
    [op |-> 2, d |-> [k |-> "identify", token |-> Token, intents |-> 0,
                      properties |-> [os |-> "linux", browser |-> "NAME",
                                      device |-> "NAME"]]]

\* C18: connect() that has read a Hello with heartbeat_interval N sends the
\* Identify and no Heartbeat, and starts the task with the first tick due
\* after an offset in 0..N-1 and the period N; a Heartbeat is only ever sent
\* by the task, so after the Identify; each tick puts the next one a period
\* after the time it was due
C18_IdentifyThenJitteredHeartbeat ==
    [][/\ (last'.act = "connect" /\ last'.res = "Ok") =>
            /\ Len(out') = 2
            /\ out'[2] = [op |-> "send", text |-> IdentifyText, ok |-> TRUE]
            /\ ~HeartbeatSent(out')
            /\ interval'.period = last'.hello[1]
            /\ interval'.timer \in 0..(last'.hello[1] - 1)
            /\ interval'.timer < last'.hello[1]
       /\ HeartbeatSent(out') => pc = "select"
       /\ (last'.act = "tick" /\ pc' = "select") =>
            /\ interval'.timer = interval.timer + interval.period
            /\ interval'.period = interval.period]_vars

\* connect() has returned after a Hello with heartbeat_interval 3, the first
\* heartbeat due after 2
C18_Witness ==
    /\ last.act = "connect"
    /\ last.res = "Ok"
    /\ last.hello = Some(3)
    /\ interval = [timer |-> 2, period |-> 3]
    /\ pc = "select"

\* C19: connect() in which the discovery, the opening of the transport or
\* the send of the Identify fails returns an error, and no task is spawned
C19_ConnectFailureReturned ==
    [][(last'.act = "connect" /\ last'.at \in {"discovery", "open", "identify"}) =>
            (last'.res = "Err" /\ pc' = "unspawned")]_vars

\* C20: the text of an envelope has the member "s" exactly when the
\* sequence is there and the member "t" exactly when the event name is
\* there, and decoding the text gives the envelope back: the same op,
\* payload, sequence and event name, what was absent being absent
C20_RoundTrip ==
    /\ (last.act \in {"encode", "decode"}) =>
            /\ ("s" \in DOMAIN last.text) <=> (last.msg.s # None)
            /\ ("t" \in DOMAIN last.text) <=> (last.msg.t # None)
    /\ (last.act = "decode") => last.decoded = Some(last.msg)

\* an envelope without sequence and event name has gone through the codec
C20_Witness ==
    /\ last.act = "decode"
    /\ last.msg.s = None
    /\ last.msg.t = None
    /\ DOMAIN last.text = {"op", "d"}
    /\ last.decoded = Some(last.msg)

\* an envelope with sequence and event name has gone through the codec
C20_WitnessBothPresent ==
    /\ last.act = "decode"
    /\ last.msg.s = Some(2)
    /\ last.msg.t = Some("READY")
    /\ DOMAIN last.text = {"op", "d", "s", "t"}
    /\ last.decoded = Some(last.msg)

\* the envelope m has its sequence and its event name together
Together(m) == (m.s = None) <=> (m.t = None)

\* C21: every envelope the task has decoded from a frame, and every frame
\* it has written, has the sequence and the event name both or neither
C21_SequenceWithEventName ==
    /\ (last.act = "recv" /\ last.item.kind = "text" /\ last.item.msg # None) =>
            Together(Msg(last))
    /\ \A i \in 1..Len(out) :
            (out[i].op = "send") =>
                (("s" \in DOMAIN out[i].text) <=> ("t" \in DOMAIN out[i].text))

\* a transport is opened among the operations o
Opens(o) == \E i \in 1..Len(o) : o[i].op = "connect"

\* a frame with opcode op is written among the operations o
Sends(o, op) == \E i \in 1..Len(o) : o[i].op = "send" /\ o[i].text.op = op

\* C22: once the session task has ended it stays ended, its transport stays
\* dropped and nothing is done to a transport; outside connect() a transport
\* is opened, or a Resume or Identify written, only by the running task
\* answering a Reconnect envelope
C22_NoReconnectAfterExit ==
    [][/\ (pc = "done") =>
            (pc' = "done" /\ ws_stream' = "dropped" /\ out' = <<>>)
       /\ (/\ last'.act # "connect"
           /\ Opens(out') \/ Sends(out', Resume) \/ Sends(out', Identify)) =>
            (Processed(last', Reconnect) /\ pc = "select")]_vars

\* the task has ended on the elapsed ack deadline with credentials stored,
\* and the handle has been polled since
C22_Witness ==
    /\ pc = "done"
    /\ exit = "heartbeat_timeout"
    /\ ws_stream = "dropped"
    /\ last.act = "poll_next"
    /\ out = <<>>

\* the step l is a heartbeat: the interval has ticked or a Heartbeat
\* envelope was read
HeartbeatTrigger(l) == l.act = "tick" \/ Processed(l, Heartbeat)

\* C23: a heartbeat, by the timer or on a Heartbeat envelope, writes one
\* Heartbeat frame whose payload is the stored sequence (None as null); when
\* the frame is written the deadline is armed to 2 seconds from now and the
\* task goes on with sequence, credentials and channel as they were, and
\* when it is not the task ends; the remote trigger leaves the interval alone
C23_HeartbeatSendsSequence ==
    [][HeartbeatTrigger(last') =>
            /\ Len(out') = 1
            /\ out'[1].op = "send"
            /\ out'[1].text = [op |-> 1, d |-> [k |-> "seq", seq |-> sequence]]
            /\ IF out'[1].ok
               THEN /\ heartbeat_timeout' = Some(2)
                    /\ pc' = "select"
                    /\ interval'.period = interval.period
                    /\ Processed(last', Heartbeat) => interval' = interval
                    /\ UNCHANGED <<sequence, ready, chan, held, forwarded,
                                   die, handle>>
               ELSE pc' = "done"]_vars

\* a Heartbeat envelope has been answered with a Heartbeat frame that
\* carries the sequence 2
C23_Witness ==
    /\ Processed(last, Heartbeat)
    /\ out = <<[op |-> "send", ok |-> TRUE,
                text |-> [op |-> 1, d |-> [k |-> "seq", seq |-> Some(2)]]]>>
    /\ heartbeat_timeout = Some(2)
    /\ sequence = Some(2)

\* C24: the events on the channel are the last ones forwarded, in the order
\* they were forwarded, and a poll yields the oldest of them: the events the
\* handle yields are the first, the second, ... forwarded, none twice
C24_EventsInOrder ==
    /\ [](\A i \in 1..Len(chan) : chan[i] = forwarded - Len(chan) + i)
    /\ [][(last'.act = "poll_next" /\ last'.res = "event") =>
            /\ last'.id = forwarded - Len(chan) + 1
            /\ chan' = Tail(chan)
            /\ forwarded' = forwarded]_vars

\* the third of five forwarded events has been yielded
C24_Witness ==
    /\ last.act = "poll_next"
    /\ last.res = "event"
    /\ last.id = 3
    /\ chan = <<4, 5>>
    /\ forwarded = 5

\* the states of the handle in which it still owns the receiver
LiveHandles == {"open", "joined", "closing"}

\* C25: the channel never holds more than 16 events; a forward that finds
\* 16 there suspends with its event and leaves the channel as it is; while
\* it is suspended events leave the channel only by a poll of the handle,
\* oldest first, and it completes only into a channel with room, adding its
\* event at the end; the channel changes in no other way
C25_BoundedChannelBlocks ==
    /\ [](Len(chan) <= 16)
    /\ [][/\ (DispatchProcessed(last') /\ last'.res = "InteractionCreate"
               /\ Len(chan) = 16 /\ handle \in LiveHandles)
             => (pc' = "send" /\ held' = Some(forwarded + 1)
                   /\ chan' = chan /\ forwarded' = forwarded)
          /\ (pc = "send" /\ pc' = "send")
             => (held' = held
                   /\ (chan' = chan
                       \/ (last'.act = "poll_next" /\ chan' = Tail(chan))))
          /\ (pc = "send" /\ pc' = "select")
             => (last'.act = "send" /\ Len(chan) < 16
                   /\ chan' = Append(chan, held[1]))
          /\ (chan' # chan)
             => ((last'.act = "poll_next" /\ chan' = Tail(chan))
                   \/ (last'.act \in {"recv", "send"}
                       /\ chan' = Append(chan, forwarded + 1)))]_vars

\* the forward of the 17th event, suspended on the full channel, has
\* completed after the consumer took the first event
C25_Witness ==
    /\ last.act = "send"
    /\ pc = "select"
    /\ forwarded = 17
    /\ Len(chan) = 16
    /\ chan[1] = 2
    /\ chan[16] = 17

\* C26: close() that has sent the shutdown signal returns in the end
C26_CloseReturns ==
    (handle = "closing") ~> (handle = "closed")

\* C27: the handle reports the end of the sequence only when no forwarded
\* event is left on the channel
C27_NoEventLeftAtEnd ==
    [][(last'.act = "poll_next" /\ last'.res = "end") => chan = <<>>]_vars

\* C28: the task that goes on after a resume has no ack deadline armed
C28_ResumeClearsDeadline ==
    [][(Processed(last', Reconnect) /\ pc' = "select") =>
            heartbeat_timeout' = None]_vars

\* C29: after the handle has been dropped without close() the session task
\* ends
C29_DroppedHandleTerminates ==
    (handle = "dropped") ~> (pc = "done")

\* the task of a dropped handle has taken the shutdown branch, no shutdown
\* message having been sent and no event forwarded
C29_Witness ==
    /\ handle = "dropped"
    /\ pc = "done"
    /\ exit = "shutdown"
    /\ last.act = "shutdown"
    /\ die = 0
    /\ forwarded = 0

\* C30: Client::request never returns RateLimited or Network, returns any
\* other outcome of request_weak as it is, and after a RateLimited or Network
\* outcome is still running with the same arguments
C30_RequestRetries ==
    /\ [](pc = "returned" =>
            /\ last.returned \notin {"RateLimited", "Network"}
            /\ last.returned = last.res)
    /\ [][pc = "request" =>
            /\ last'.res \in {"RateLimited", "Network"} =>
                    pc' = "request" /\ last'.args = last.args
            /\ last'.res \notin {"RateLimited", "Network"} =>
                    pc' = "returned"]_vars

\* a call returns a value on its third attempt, the first two having been
\* retried
C30_Witness ==
    /\ pc = "returned"
    /\ last.attempts = 3
    /\ last.returned = "Ok"

====
